---- MODULE Spec2Model ----
(***************************************************************************)
(* Model of app.py, the pump-signal scanner: the module body executed by   *)
(* `python app.py`, and main()'s polling loop with scan_once(), the guard  *)
(* evaluator, the five rules, the vote threshold and the alert path.       *)
(*                                                                         *)
(* Candle prices are not carried: what the four price rules conclude from  *)
(* the close column (EMA cross, Bollinger squeeze breakout, RSI above the  *)
(* level, OBV/price new highs) is drawn when the rule is invoked.  Volume, *)
(* liquidity, price snapshot and market cap are carried as columns, and    *)
(* everything the guards and rule_mcap_roc compute is computed from them.  *)
(***************************************************************************)
EXTENDS Integers, Sequences, FiniteSets, TLC

\* ---------------------------------------------------------------- CONFIG
PAIRS_PER_SCAN == 20
LOOKBACK == 120
MIN_ABS_VOLUME_USD == 3000
MIN_LIQ_USD == 30000
ROC_WINDOW == 5
\* VOL_MULT_CONFIRM = 1.5, kept as the fraction VOL_MULT_NUM / VOL_MULT_DEN
VOL_MULT_NUM == 3
VOL_MULT_DEN == 2
MIN_SIGNALS_REQUIRED == 2
\* literals of the code
MIN_BARS == 60
VOL_WINDOW == 20
ROC_THR == 5

\* ---------------------------------------------------------------- bounds
\* bars beyond MIN_BARS in the longest short series a candle response holds
MaxExtraBars == 1
\* largest snapshot price (priceUsd parses to 0..MaxPrice)
MaxPrice == 2
\* candidates returned beyond PAIRS_PER_SCAN
MaxOverflow == 1

\* ---------------------------------------------------------------- values
\* JSON / Python values.  A float is <<v>>, NaN is <<>>.
None == [t |-> "none"]
Absent == [t |-> "absent"]
Str(s) == [t |-> "str", s |-> s]
\* the decimal string of n, as the API sends prices
NumStr(n) == [t |-> "numstr", n |-> n]
Num(n) == [t |-> "num", n |-> n]
Dict(usd, base) == [t |-> "dict", usd |-> usd, base |-> base]
NaN == <<>>
IsNaN(x) == x = NaN
\* np.nan as a Python value
NanVal == [t |-> "nan"]

\* dict.get(key, default): the default only when the key is absent
Get(v, dflt) == IF v = Absent THEN dflt ELSE v

\* Python truthiness of a JSON value
Truthy(v) ==
  CASE v.t = "none" -> FALSE
    [] v.t = "absent" -> FALSE
    [] v.t = "str" -> v.s # ""
    [] v.t = "numstr" -> TRUE
    [] v.t = "num" -> v.n # 0
    [] v.t = "nan" -> TRUE
    [] v.t = "dict" -> v.usd # Absent \/ v.base # Absent

\* a or b
PyOr(a, b) == IF Truthy(a) THEN a ELSE b

\* float(v) raises for None, a dict and a non-numeric string
FloatRaises(v) == v.t \in {"none", "absent", "str", "dict"}
Float(v) == IF v.t \in {"num", "numstr"} THEN <<v.n>> ELSE NaN

\* ---------------------------------------------------------------- columns
RECURSIVE SumFrom(_, _, _)
SumFrom(col, i, j) == IF i > j THEN 0 ELSE col[i][1] + SumFrom(col, i + 1, j)

Window(col, w) == (Len(col) - w + 1)..Len(col)

\* series.rolling(w).mean().iloc[-1] is NaN unless the last w values are all
\* numbers; it is then RollingSum / w.  The sum is kept, and every comparison
\* with the mean is made on the sum, scaled by w.
RollingDefined(col, w) ==
  /\ Len(col) >= w
  /\ \A i \in Window(col, w) : ~IsNaN(col[i])
RollingSum(col, w) == SumFrom(col, Len(col) - w + 1, Len(col))

\* f"{x:.0f}" of sum / w: round half to even
RoundDiv(sum, w) ==
  LET q == sum \div w
      r == sum % w
  IN  IF 2 * r < w THEN q
      ELSE IF 2 * r > w THEN q + 1
      ELSE IF q % 2 = 0 THEN q ELSE q + 1

\* scalar * column, NaN absorbing
Times(col, px) ==
  [i \in 1..Len(col) |-> IF IsNaN(col[i]) \/ IsNaN(px) THEN NaN ELSE <<col[i][1] * px[1]>>]
Broadcast(n, x) == [i \in 1..n |-> x]
FillNa0(col) == [i \in 1..Len(col) |-> IF IsNaN(col[i]) THEN <<0>> ELSE col[i]]
AllNaN(col) == \A i \in 1..Len(col) : IsNaN(col[i])

\* series.pct_change(k).iloc[-1] * 100 as a fraction <<num, den>>: NaN when a
\* value is missing or 0/0, den = 0 for an infinite change
PctChangeLast(col, k) ==
  IF Len(col) <= k THEN NaN
  ELSE LET a == col[Len(col)]
           b == col[Len(col) - k]
       IN  IF IsNaN(a) \/ IsNaN(b) THEN NaN
           ELSE IF b[1] = 0 THEN (IF a[1] = 0 THEN NaN ELSE <<a[1], 0>>)
           ELSE <<(a[1] - b[1]) * 100, b[1]>>
\* roc > thr (mcap is never negative here, so den >= 0)
Exceeds(roc, thr) ==
  /\ ~IsNaN(roc)
  /\ IF roc[2] = 0 THEN roc[1] > 0 ELSE roc[1] > thr * roc[2]

\* ---------------------------------------------------------------- data frames
EmptyFrame == [cols |-> {}, n |-> 0, volume |-> <<>>, volumeUsd |-> <<>>,
               liquidityUsd |-> <<>>, mcap |-> <<>>]
\* TooShort with the bound off by one
TooShort_off_by_one(df) == df.cols = {} \/ df.n = 0 \/ df.n < MIN_BARS - 1
\* df.empty or len(df) < 60
TooShort(df) == df.cols = {} \/ df.n = 0 \/ df.n < MIN_BARS

\* get_candles on a 200 response with n candles: the last `lookback` rows, the
\* columns renamed; hasV is whether the candles carry "v".  vol(i) is the volume
\* of row i of the response.
LastRows(col, k) == IF Len(col) <= k THEN col ELSE [i \in 1..k |-> col[Len(col) - k + i]]
get_candles(status, candles, hasV) ==
  IF status # 200 THEN EmptyFrame
  ELSE IF Len(candles) = 0 THEN EmptyFrame
  ELSE LET rows == LastRows(candles, LOOKBACK)
       IN  [cols |-> {"time", "open", "high", "low", "close"} \cup (IF hasV THEN {"volume"} ELSE {}),
            n |-> Len(rows),
            volume |-> IF hasV THEN rows ELSE <<>>,
            volumeUsd |-> <<>>, liquidityUsd |-> <<>>, mcap |-> <<>>]

\* enrich_with_snapshot
enrich_raises(df, pair) ==
  \/ Get(pair.liquidity, Dict(Absent, Absent)).t # "dict"   \* liq.get on None: AttributeError
  \/ "volume" \notin df.cols                                  \* df["volume"]: KeyError
enrich_px(pair) ==
  LET quote == Get(pair.priceUsd, None)
  IN  IF Truthy(quote) THEN (IF FloatRaises(quote) THEN NaN ELSE Float(quote)) ELSE NaN
enrich_liq_usd(pair) ==
  LET liq == Get(pair.liquidity, Dict(Absent, Absent))
  IN  PyOr(PyOr(Get(liq.usd, None), Get(liq.base, None)), Num(0))
enrich_mcap(pair) ==
  LET v == PyOr(PyOr(Get(pair.fdv, None), Get(pair.marketCap, None)), NanVal)
  IN  IF FloatRaises(v) THEN NaN ELSE Float(v)
enrich_with_snapshot(df, pair) ==
  [df EXCEPT !.cols = @ \cup {"liquidityUsd", "volumeUsd", "mcap"},
             !.liquidityUsd = Broadcast(df.n, Float(enrich_liq_usd(pair))),
             !.volumeUsd = Times(df.volume, enrich_px(pair)),
             !.mcap = Broadcast(df.n, enrich_mcap(pair))]

\* ---------------------------------------------------------------- guards
guards_vcol(df) == IF "volumeUsd" \in df.cols THEN df.volumeUsd ELSE df.volume
\* vavg >= MIN_ABS_VOLUME_USD, false for a NaN mean
guards_vol_ok(df) ==
  LET col == guards_vcol(df)
  IN  /\ RollingDefined(col, VOL_WINDOW)
      /\ RollingSum(col, VOL_WINDOW) >= MIN_ABS_VOLUME_USD * VOL_WINDOW
guards_liq_ok(df) ==
  /\ "liquidityUsd" \in df.cols
  /\ ~IsNaN(df.liquidityUsd[df.n])
  /\ df.liquidityUsd[df.n][1] >= MIN_LIQ_USD
guards(df) == guards_vol_ok(df) /\ guards_liq_ok(df)

\* ---------------------------------------------------------------- rules
RuleNames == <<"rule_ema_cross", "rule_boll_breakout", "rule_rsi_reclaim",
               "rule_obv_leads", "rule_mcap_roc">>
\* what a rule call yields: a raised exception, or (ok, meta); meta by its keys
Raised == [exc |-> TRUE, ok |-> FALSE, meta |-> {}]
Returned(ok, meta) == [exc |-> FALSE, ok |-> ok, meta |-> meta]
\* what the close column makes of a price rule: its condition holds, it does
\* not, or the computation raises
PriceVerdicts == {"yes", "no", "raise"}

\* cross is the EMA(9)/EMA(21) crossover at the last bar
rule_ema_cross(df, p) ==
  IF p = "raise" \/ "volumeUsd" \notin df.cols THEN Raised
  ELSE LET v == FillNa0(df.volumeUsd)
           sum == RollingSum(v, VOL_WINDOW)
           \* vavg = mean or 1; v[-1] > 1.5 * vavg, scaled by 2 * 20
           vol_ok == IF sum = 0
                     THEN v[Len(v)][1] * VOL_MULT_DEN > VOL_MULT_NUM
                     ELSE v[Len(v)][1] * VOL_MULT_DEN * VOL_WINDOW > VOL_MULT_NUM * sum
       IN  Returned(p = "yes" /\ vol_ok, {"vol_mult"})
rule_boll_breakout(df, p) ==
  IF p = "raise" THEN Raised ELSE Returned(p = "yes", {})
rule_rsi_reclaim(df, p) ==
  IF p = "raise" THEN Raised ELSE Returned(p = "yes", {"rsi"})
rule_obv_leads(df, p) ==
  IF p = "raise" \/ "volume" \notin df.cols THEN Raised ELSE Returned(p = "yes", {})
\* rule_mcap_roc with the comparison reversed
rule_mcap_roc_reversed(df) ==
  IF "mcap" \notin df.cols \/ AllNaN(df.mcap) THEN Returned(FALSE, {})
  ELSE LET roc == PctChangeLast(df.mcap, ROC_WINDOW)
       IN  Returned(~IsNaN(roc) /\ ~Exceeds(roc, ROC_THR), {"roc%"})
rule_mcap_roc(df) ==
  IF "mcap" \notin df.cols \/ AllNaN(df.mcap) THEN Returned(FALSE, {})
  ELSE Returned(Exceeds(PctChangeLast(df.mcap, ROC_WINDOW), ROC_THR), {"roc%"})

\* f(df) for the k-th rule of the tuple scan_once iterates
CallRule(k, df, p) ==
  CASE k = 1 -> rule_ema_cross(df, p)
    [] k = 2 -> rule_boll_breakout(df, p)
    [] k = 3 -> rule_rsi_reclaim(df, p)
    [] k = 4 -> rule_obv_leads(df, p)
    [] k = 5 -> rule_mcap_roc(df)

\* ---------------------------------------------------------------- the world
Tok(symbol, name) == [t |-> "tok", symbol |-> symbol, name |-> name]

\* a pair descriptor the guards admit on a series of enough volume
GoodPair(addr, created) ==
  [pairAddress |-> Str(addr), address |-> Absent,
   baseToken |-> Tok(Str("SYM"), Absent),
   liquidity |-> Dict(Num(MIN_LIQ_USD), Absent),
   priceUsd |-> NumStr(1), fdv |-> Num(1000000), marketCap |-> Absent,
   pairCreatedAt |-> Num(created)]
\* a descriptor with no address: scan_once passes over it
Filler(created) ==
  [GoodPair("", created) EXCEPT !.pairAddress = Absent]

Liquidities ==
  {Absent, None, Dict(Absent, Absent), Dict(Num(MIN_LIQ_USD - 1), Absent),
   Dict(Num(MIN_LIQ_USD), Absent), Dict(None, Num(MIN_LIQ_USD))}
Prices == {Absent, Str("abc")} \cup {NumStr(n) : n \in 0..MaxPrice}

\* the descriptors the candidate source varies, all created at `created`
VariedPairs(created) ==
  LET g == GoodPair("F", created)
  IN  {[g EXCEPT !.liquidity = l, !.priceUsd = q] : l \in Liquidities, q \in Prices}
      \cup {[g EXCEPT !.fdv = f, !.marketCap = m] :
              f \in {Absent, Num(0), Num(1000000), Str("abc")}, m \in {Absent, Num(2000000)}}
      \cup {[g EXCEPT !.pairAddress = Absent, !.address = Str("F2")],
            [g EXCEPT !.pairAddress = None],
            [g EXCEPT !.baseToken = None],
            [g EXCEPT !.baseToken = Absent],
            [g EXCEPT !.baseToken = Tok(Absent, Str("name"))]}

\* four of them: a good descriptor, one without an address, one with a null
\* liquidity and one with a null baseToken
FewPairs ==
  LET g == GoodPair("F", 2)
  IN  {g, [g EXCEPT !.pairAddress = None], [g EXCEPT !.liquidity = None],
       [g EXCEPT !.baseToken = None]}

\* the "pairs" arrays of the candidate source, as sent (not yet sorted): none;
\* one of fs alone; one of FewPairs before an older good pair; one of FewPairs
\* behind PAIRS_PER_SCAN - 1 newer address-less pairs, with MaxOverflow older
\* good pairs after it; and a pair whose creation time is null
ListsOver(fs) ==
  {<<>>}
  \cup {<<f>> : f \in fs}
  \cup {<<GoodPair("G", 1), f>> : f \in FewPairs}
  \cup {[i \in 1..MaxOverflow |-> GoodPair("G", 1)] \o <<f>>
          \o [i \in 1..(PAIRS_PER_SCAN - 1) |-> Filler(3)] : f \in FewPairs}
  \cup {<<GoodPair("G", 1), [GoodPair("F", 2) EXCEPT !.pairCreatedAt = None]>>}
PairLists == ListsOver(VariedPairs(2))
FewPairLists == ListsOver(FewPairs)

\* responses of the candles endpoint: rows by their volume, all `base` but the
\* last; hasV is whether the rows carry "v"
CandleRows(n, base, last) == [i \in 1..n |-> IF i = n THEN <<last>> ELSE <<base>>]
CandleLens == {MIN_BARS - 1, MIN_BARS, MIN_BARS + MaxExtraBars, LOOKBACK + 1}
CandleResponses ==
  {[kind |-> "raise", status |-> 0, candles |-> <<>>, hasV |-> FALSE],
   [kind |-> "ok", status |-> 500, candles |-> <<>>, hasV |-> FALSE],
   [kind |-> "ok", status |-> 200, candles |-> <<>>, hasV |-> TRUE],
   [kind |-> "ok", status |-> 200,
    candles |-> CandleRows(MIN_BARS, MIN_ABS_VOLUME_USD, MIN_ABS_VOLUME_USD), hasV |-> FALSE]}
  \cup {[kind |-> "ok", status |-> 200, candles |-> CandleRows(n, v[1], v[2]), hasV |-> TRUE] :
          n \in CandleLens,
          v \in {<<MIN_ABS_VOLUME_USD, MIN_ABS_VOLUME_USD>>,
                 <<MIN_ABS_VOLUME_USD - 1, MIN_ABS_VOLUME_USD - 1>>,
                 <<MIN_ABS_VOLUME_USD, 2 * MIN_ABS_VOLUME_USD>>}}
\* what the candles endpoint may answer for an address: anything for the varied
\* pair; for the good pair "G" a failure, a series one bar short, or a series
\* of MIN_BARS bars with a volume spike on the last
CandlesOf(addr) ==
  IF addr = Str("G")
  THEN {r \in CandleResponses :
          \/ r.kind = "raise"
          \/ /\ r.hasV
             /\ \/ Len(r.candles) = MIN_BARS - 1 /\ r.candles[1] = <<MIN_ABS_VOLUME_USD>>
                \/ /\ Len(r.candles) = MIN_BARS
                   /\ r.candles[MIN_BARS] = <<2 * MIN_ABS_VOLUME_USD>>}
  ELSE CandleResponses

\* ---------------------------------------------------------------- get_new_solana_pairs
\* d.get("pairCreatedAt", 0)
CreatedKey(d) == Get(d.pairCreatedAt, Num(0))
\* list.sort compares keys once there are two elements: None < int is a TypeError
sort_raises(data) == Len(data) >= 2 /\ \E i \in 1..Len(data) : CreatedKey(data[i]).t # "num"
\* stable insertion of d into a list sorted newest first
RECURSIVE InsertNewest(_, _)
InsertNewest(sorted, d) ==
  IF sorted = <<>> THEN <<d>>
  ELSE IF CreatedKey(Head(sorted)).n >= CreatedKey(d).n
       THEN <<Head(sorted)>> \o InsertNewest(Tail(sorted), d)
       ELSE <<d>> \o sorted
RECURSIVE SortNewestFirst(_)
SortNewestFirst(data) ==
  IF Len(data) <= 1 THEN data
  ELSE InsertNewest(SortNewestFirst(SubSeq(data, 1, Len(data) - 1)), data[Len(data)])

\* ---------------------------------------------------------------- state
VARIABLES
  environ,          \* the process environment: TELEGRAM_TOKEN, TELEGRAM_CHAT_ID
  mpc,              \* index in Program of the module-level statement to execute
  bound,            \* names bound in the module namespace
  exc,              \* the exception that ended the process, or "none"
  TELEGRAM_TOKEN,   \* module globals read by send_tg
  TELEGRAM_CHAT_ID,
  pc,               \* position in main / scan_once / send_tg
  pairs,            \* scan_once: pairs
  idx,              \* scan_once: position of `pair` in pairs (1-based)
  df,               \* scan_once: df
  hits,             \* scan_once: hits
  k,                \* scan_once: position of f in the rule tuple
  last,             \* what the latest f(df) call yielded, with the (ok, meta) kept
  log,              \* calls made and lines printed in the current cycle, in order
  cycle             \* parity of the number of scan_once calls

vars == <<environ, mpc, bound, exc, TELEGRAM_TOKEN, TELEGRAM_CHAT_ID,
          pc, pairs, idx, df, hits, k, last, log, cycle>>
modvars == <<environ, mpc, bound, exc, TELEGRAM_TOKEN, TELEGRAM_CHAT_ID>>
scanvars == <<pairs, idx, df, hits, k, last>>

NoCall == [rule |-> "", exc |-> FALSE, ok |-> FALSE, meta |-> {}]
NoMsg == [sym |-> "", signals |-> <<>>, vol20avg |-> 0, liq |-> 0, roc |-> ""]
Event(ev, i) == [ev |-> ev, i |-> i, rule |-> "", msg |-> NoMsg]
RuleEvent(i, name) == [ev |-> "rule", i |-> i, rule |-> name, msg |-> NoMsg]
PrintEvent(i, msg) == [ev |-> "print", i |-> i, rule |-> "", msg |-> msg]

\* ---------------------------------------------------------------- module body
\* the module-level statements in order: the names each reads when it is
\* executed and the names it binds
Stmt(line, kind, uses, binds) == [line |-> line, kind |-> kind, uses |-> uses, binds |-> binds]
Program ==
  << Stmt(1, "import", {}, {"time", "math", "requests"}),
     Stmt(2, "import", {}, {"pd"}),
     Stmt(3, "import", {}, {"np"}),
     Stmt(4, "import", {}, {"tz"}),
     Stmt(7, "assign", {}, {"PAIRS_PER_SCAN"}),
     Stmt(8, "assign", {}, {"INTERVAL_SECONDS"}),
     Stmt(9, "assign", {}, {"CANDLE_INTERVAL"}),
     Stmt(10, "assign", {}, {"LOOKBACK"}),
     Stmt(11, "assign", {}, {"MIN_ABS_VOLUME_USD"}),
     Stmt(12, "assign", {}, {"MIN_LIQ_USD"}),
     Stmt(13, "assign", {}, {"ROC_WINDOW"}),
     Stmt(14, "assign", {}, {"VOL_MULT_CONFIRM"}),
     Stmt(15, "assign", {}, {"MIN_SIGNALS_REQUIRED"}),
     Stmt(17, "getenv", {"os"}, {"TELEGRAM_TOKEN"}),
     Stmt(18, "getenv", {"os"}, {"TELEGRAM_CHAT_ID"}),
     Stmt(21, "def", {"str"}, {"send_tg"}),
     Stmt(34, "def", {}, {"ema"}),
     Stmt(37, "def", {}, {"bollinger"}),
     Stmt(42, "def", {}, {"rsi"}),
     Stmt(51, "def", {}, {"obv"}),
     Stmt(56, "def", {}, {"get_new_solana_pairs"}),
     Stmt(66, "def", {"CANDLE_INTERVAL", "LOOKBACK"}, {"get_candles"}),
     Stmt(82, "def", {}, {"enrich_with_snapshot"}),
     Stmt(104, "def", {}, {"rule_ema_cross"}),
     Stmt(113, "def", {}, {"rule_boll_breakout"}),
     Stmt(124, "def", {}, {"rule_rsi_reclaim"}),
     Stmt(128, "def", {}, {"rule_obv_leads"}),
     Stmt(135, "def", {}, {"rule_mcap_roc"}),
     Stmt(141, "def", {}, {"guards"}),
     Stmt(149, "def", {}, {"scan_once"}),
     Stmt(185, "def", {}, {"main"}),
     Stmt(194, "ifmain", {"__name__"}, {}),
     Stmt(195, "import", {}, {"os"}),
     Stmt(196, "callmain", {"main"}, {}) >>

\* names bound before the first statement runs
Builtins == {"__name__", "str"}
Unbound == [t |-> "unbound"]
\* os.getenv(name): the variable's value, None when it is not set
getenv(env, name) == env[name]

Environs ==
  [TELEGRAM_TOKEN : {None, Str(""), Str("tok")},
   TELEGRAM_CHAT_ID : {None, Str(""), Str("chat")}]

ScriptInit ==
  /\ environ \in Environs
  /\ mpc = 1
  /\ bound = Builtins
  /\ exc = "none"
  /\ TELEGRAM_TOKEN = Unbound
  /\ TELEGRAM_CHAT_ID = Unbound
  /\ pc = "module"
  /\ pairs = <<>> /\ idx = 0 /\ df = EmptyFrame /\ hits = <<>> /\ k = 0
  /\ last = NoCall /\ log = <<>> /\ cycle = 0

\* execute the statement at mpc: a name it reads that is not bound raises
\* NameError, which nothing catches at module level
ExecStatement ==
  /\ pc = "module"
  /\ exc = "none"
  /\ mpc \in 1..Len(Program)
  /\ LET st == Program[mpc]
     IN  IF ~(st.uses \subseteq bound)
         THEN /\ exc' = "NameError"
              /\ pc' = "exited"
              /\ UNCHANGED <<mpc, bound, TELEGRAM_TOKEN, TELEGRAM_CHAT_ID>>
         ELSE /\ bound' = bound \cup st.binds
              /\ mpc' = mpc + 1
              /\ exc' = exc
              /\ TELEGRAM_TOKEN' =
                   IF st.binds = {"TELEGRAM_TOKEN"}
                   THEN getenv(environ, "TELEGRAM_TOKEN") ELSE TELEGRAM_TOKEN
              /\ TELEGRAM_CHAT_ID' =
                   IF st.binds = {"TELEGRAM_CHAT_ID"}
                   THEN getenv(environ, "TELEGRAM_CHAT_ID") ELSE TELEGRAM_CHAT_ID
              /\ pc' = IF st.kind = "callmain" THEN "main" ELSE pc
  /\ UNCHANGED <<environ, scanvars, log, cycle>>

ScriptNext == ExecStatement
ScriptSpec == ScriptInit /\ [][ScriptNext]_vars

\* ---------------------------------------------------------------- main loop
AllBound == Builtins \cup UNION {Program[i].binds : i \in 1..Len(Program)}
\* the environments main() is run under: each variable unset or set
MainEnvirons ==
  {e \in Environs : e.TELEGRAM_TOKEN # Str("") /\ e.TELEGRAM_CHAT_ID # Str("")}

\* main() entered with the module's names bound
Init ==
  /\ environ \in MainEnvirons
  /\ mpc = Len(Program) + 1
  /\ bound = AllBound
  /\ exc = "none"
  /\ TELEGRAM_TOKEN = getenv(environ, "TELEGRAM_TOKEN")
  /\ TELEGRAM_CHAT_ID = getenv(environ, "TELEGRAM_CHAT_ID")
  /\ pc = "main"
  /\ pairs = <<>> /\ idx = 0 /\ df = EmptyFrame /\ hits = <<>> /\ k = 0
  /\ last = NoCall /\ log = <<>> /\ cycle = 0

\* pairs[:PAIRS_PER_SCAN]
Scanned(ps) == IF Len(ps) <= PAIRS_PER_SCAN THEN Len(ps) ELSE PAIRS_PER_SCAN

\* line 154
pair_addr(pair) == PyOr(Get(pair.pairAddress, None), Get(pair.address, None))
\* line 155: .get on a null baseToken is an AttributeError
sym_raises(pair) == Get(pair.baseToken, Tok(Absent, Absent)).t # "tok"
pair_sym(pair) ==
  LET b == Get(pair.baseToken, Tok(Absent, Absent))
      s == PyOr(PyOr(Get(b.symbol, None), Get(b.name, None)), Str("?"))
  IN  s.s

\* try_rule with the except branch counting the rule as passed
try_rule_pass_on_error(res) ==
  IF res.exc THEN [ok |-> TRUE, meta |-> {}] ELSE [ok |-> res.ok, meta |-> res.meta]
\* lines 167-170: what (ok, meta) are after the try statement
try_rule(res) == IF res.exc THEN [ok |-> FALSE, meta |-> {}] ELSE [ok |-> res.ok, meta |-> res.meta]
\* alert_due with a strict comparison
alert_due_strict(h) == Len(h) > MIN_SIGNALS_REQUIRED
\* line 173
alert_due(h) == Len(h) >= MIN_SIGNALS_REQUIRED
\* lines 175-181
alert_msg(pair, d, h) ==
  [sym |-> pair_sym(pair),
   signals |-> h,
   vol20avg |-> RoundDiv(RollingSum(d.volumeUsd, VOL_WINDOW), VOL_WINDOW),
   liq |-> d.liquidityUsd[d.n][1],
   roc |-> IF AllNaN(d.mcap) THEN "n/a"
           ELSE LET r == PctChangeLast(d.mcap, ROC_WINDOW)
                IN  IF IsNaN(r) THEN "nan" ELSE IF r[1] = 0 THEN "0.0" ELSE "nonzero"]
\* line 22
tg_configured == Truthy(TELEGRAM_TOKEN) /\ Truthy(TELEGRAM_CHAT_ID)

\* line 186
Main ==
  /\ pc = "main"
  /\ pc' = "scan"
  /\ UNCHANGED <<modvars, scanvars, log, cycle>>

\* lines 189, 150-152: scan_once calls get_new_solana_pairs; a failed request,
\* an error status, a body that is not the expected JSON and a failed sort
\* all raise out of scan_once
CallSource(lists) ==
  /\ pc = "scan"
  /\ cycle' = 1 - cycle
  /\ \/ /\ pc' = "except"
        /\ UNCHANGED <<scanvars, log>>
     \/ \E data \in lists :
          IF sort_raises(data)
          THEN /\ pc' = "except"
               /\ UNCHANGED <<scanvars, log>>
          ELSE /\ pairs' = SortNewestFirst(data)
               /\ log' = Append(log, Event("pairs", 0))
               /\ IF pairs' = <<>>
                  THEN pc' = "sleep" /\ idx' = idx
                  ELSE pc' = "for" /\ idx' = 1
               /\ UNCHANGED <<df, hits, k, last>>
  /\ UNCHANGED modvars

\* `continue`, and falling off the end of the loop body: the next iteration
\* rebinds df, hits and f before it reads them, so they are cleared here
Continue ==
  /\ pc' = "for"
  /\ idx' = idx + 1
  /\ df' = EmptyFrame /\ hits' = <<>> /\ k' = 0 /\ last' = NoCall

\* lines 153-157
ForPair ==
  /\ pc = "for"
  /\ IF idx > Scanned(pairs)
     THEN pc' = "sleep" /\ idx' = idx
     ELSE IF sym_raises(pairs[idx])
     THEN pc' = "except" /\ idx' = idx
     ELSE IF ~Truthy(pair_addr(pairs[idx]))
     THEN pc' = "for" /\ idx' = idx + 1
     ELSE pc' = "candles" /\ idx' = idx
  /\ UNCHANGED <<modvars, pairs, df, hits, k, last, log, cycle>>

\* lines 158-160
GetCandles ==
  /\ pc = "candles"
  /\ log' = Append(log, Event("get_candles", idx))
  /\ \E r \in CandlesOf(pair_addr(pairs[idx])) :
       IF r.kind = "raise"
       THEN pc' = "except" /\ UNCHANGED <<df, idx, hits, k, last>>
       ELSE LET d == get_candles(r.status, r.candles, r.hasV)
            IN  IF TooShort(d)
                THEN Continue
                ELSE pc' = "enrich" /\ df' = d /\ UNCHANGED <<idx, hits, k, last>>
  /\ UNCHANGED <<modvars, pairs, cycle>>

\* line 161
Enrich ==
  /\ pc = "enrich"
  /\ IF enrich_raises(df, pairs[idx])
     THEN pc' = "except" /\ df' = df
     ELSE pc' = "guards" /\ df' = enrich_with_snapshot(df, pairs[idx])
  /\ UNCHANGED <<modvars, pairs, idx, hits, k, last, log, cycle>>

\* lines 162-165
Guards ==
  /\ pc = "guards"
  /\ log' = Append(log, Event("guards", idx))
  /\ IF guards(df)
     THEN pc' = "rules" /\ hits' = <<>> /\ k' = 1 /\ UNCHANGED <<idx, df, last>>
     ELSE Continue
  /\ UNCHANGED <<modvars, pairs, cycle>>

\* lines 166-171: one iteration of the rule loop
Rule ==
  /\ pc = "rules"
  /\ \E p \in PriceVerdicts :
       /\ k = Len(RuleNames) => p = "no"
       /\ LET res == CallRule(k, df, p)
              got == try_rule(res)
          IN  /\ last' = [rule |-> RuleNames[k], exc |-> res.exc, ok |-> got.ok, meta |-> got.meta]
              /\ hits' = IF got.ok THEN Append(hits, RuleNames[k]) ELSE hits
  /\ log' = Append(log, RuleEvent(idx, RuleNames[k]))
  /\ IF k = Len(RuleNames)
     THEN pc' = "threshold" /\ k' = k
     ELSE pc' = "rules" /\ k' = k + 1
  /\ UNCHANGED <<modvars, pairs, idx, df, cycle>>

\* line 173
Threshold ==
  /\ pc = "threshold"
  /\ IF alert_due(hits)
     THEN pc' = "alert" /\ UNCHANGED <<idx, df, hits, k, last>>
     ELSE Continue
  /\ UNCHANGED <<modvars, pairs, log, cycle>>

\* lines 174-182: the message is built and printed
Alert ==
  /\ pc = "alert"
  /\ log' = Append(log, PrintEvent(idx, alert_msg(pairs[idx], df, hits)))
  /\ pc' = "send_tg"
  /\ UNCHANGED <<modvars, scanvars, cycle>>

\* send_tg without its try statement: a failed request raises into scan_once
SendTg_unguarded ==
  /\ pc = "send_tg"
  /\ IF ~tg_configured
     THEN /\ log' = log \o <<Event("send_tg", idx), Event("tg_skipped", idx)>>
          /\ Continue
     ELSE \/ /\ log' = log \o <<Event("send_tg", idx), Event("tg_request", idx)>>
             /\ Continue
          \/ /\ log' = log \o <<Event("send_tg", idx), Event("tg_request", idx)>>
             /\ pc' = "except"
             /\ UNCHANGED <<idx, df, hits, k, last>>
  /\ UNCHANGED <<modvars, pairs, cycle>>

\* lines 183, 21-32: send_tg, whole; the request succeeds or raises
SendTg ==
  /\ pc = "send_tg"
  /\ IF ~tg_configured
     THEN log' = log \o <<Event("send_tg", idx), Event("tg_skipped", idx)>>
     ELSE \/ log' = log \o <<Event("send_tg", idx), Event("tg_request", idx)>>
          \/ log' = log \o <<Event("send_tg", idx), Event("tg_request", idx), Event("tg_error", idx)>>
  /\ Continue
  /\ UNCHANGED <<modvars, pairs, cycle>>

\* main without its try statement: the exception ends the process
LoopError_uncaught ==
  /\ pc = "except"
  /\ pc' = "exited"
  /\ exc' = "Exception"
  /\ UNCHANGED <<environ, mpc, bound, TELEGRAM_TOKEN, TELEGRAM_CHAT_ID, scanvars, log, cycle>>

\* lines 190-191
LoopError ==
  /\ pc = "except"
  /\ log' = Append(log, Event("loop_error", idx))
  /\ pc' = "sleep"
  /\ UNCHANGED <<modvars, scanvars, cycle>>

\* line 192, and back to the head of the while loop: scan_once's locals and
\* the cycle's log are gone
Sleep ==
  /\ pc = "sleep"
  /\ pc' = "scan"
  /\ pairs' = <<>> /\ idx' = 0 /\ df' = EmptyFrame /\ hits' = <<>> /\ k' = 0
  /\ last' = NoCall /\ log' = <<>>
  /\ UNCHANGED <<modvars, cycle>>

Next ==
  \/ Main \/ CallSource(PairLists) \/ ForPair \/ GetCandles \/ Enrich \/ Guards
  \/ Rule \/ Threshold \/ Alert \/ SendTg \/ LoopError \/ Sleep

Spec == Init /\ [][Next]_vars

\* the loop over the candidate lists of FewPairs, with the fairness of a
\* single thread that always takes its next step: every request has a
\* timeout (lines 29, 59, 69) and the sleep is finite (line 192)
FairNext ==
  \/ Main \/ CallSource(FewPairLists) \/ ForPair \/ GetCandles \/ Enrich \/ Guards
  \/ Rule \/ Threshold \/ Alert \/ SendTg \/ LoopError \/ Sleep
\* Telegram configured in full or not at all
FairInit ==
  /\ Init
  /\ (environ.TELEGRAM_TOKEN = None) <=> (environ.TELEGRAM_CHAT_ID = None)
FairSpec == FairInit /\ [][FairNext]_vars /\ WF_vars(FairNext)

\* ---------------------------------------------------------------- properties
\* positions of the log holding event ev of pair i
At(ev, i) == {j \in 1..Len(log) : log[j].ev = ev /\ log[j].i = i}
\* the rules invoked on pair i, in order
RuleCalls(i) ==
  LET RECURSIVE Names(_)
      Names(j) == IF j > Len(log) THEN <<>>
                  ELSE IF log[j].ev = "rule" /\ log[j].i = i
                       THEN <<log[j].rule>> \o Names(j + 1)
                       ELSE Names(j + 1)
  IN  Names(1)
InRules == pc \in {"threshold", "alert", "send_tg"}

\* C1: an error raised while one pair is processed does not abort the cycle:
\* when the cycle is over, get_candles has been called for every pair with an
\* address among the first PAIRS_PER_SCAN.
C1_ErrorDoesNotAbortCycle ==
  pc = "sleep" =>
    \A i \in 1..Scanned(pairs) :
      (~sym_raises(pairs[i]) /\ Truthy(pair_addr(pairs[i]))) => At("get_candles", i) # {}

\* C2: on an admitted pair the five rules are invoked once each, in order; a
\* rule that raises yields passed = false and empty metrics, does not enter
\* hits, and the evaluation goes on with the next rule.
C2_RulesIsolated ==
  /\ pc = "rules" => RuleCalls(idx) = SubSeq(RuleNames, 1, k - 1)
  /\ InRules => RuleCalls(idx) = RuleNames
  /\ \A i \in 1..Len(pairs) : i # idx => RuleCalls(i) \in {<<>>, RuleNames}
  /\ last.exc =>
       /\ ~last.ok
       /\ last.meta = {}
       /\ \A j \in 1..Len(hits) : hits[j] # last.rule
       /\ pc \in {"rules", "threshold", "alert", "send_tg"}
  /\ (last.rule # "" /\ ~last.exc /\ last.ok) => hits[Len(hits)] = last.rule
\* the third rule has raised, the hit of the first is kept, the fourth is next
C2_Witness ==
  /\ pc = "rules" /\ k = 4
  /\ last.rule = "rule_rsi_reclaim" /\ last.exc
  /\ hits = <<"rule_ema_cross">>

\* C3: an alert is produced for a pair exactly when at least
\* MIN_SIGNALS_REQUIRED rules passed, and then once: no alert at one vote
\* less, one alert at exactly the minimum.
C3_AlertIffEnoughVotes ==
  /\ [](\A i \in 1..Len(pairs) :
          /\ Cardinality(At("print", i)) <= 1
          /\ \A j \in At("print", i) : Len(log[j].msg.signals) >= MIN_SIGNALS_REQUIRED)
  /\ []((pc \in {"alert", "send_tg"}) => Len(hits) >= MIN_SIGNALS_REQUIRED)
  /\ [](pc = "send_tg" =>
          /\ Cardinality(At("print", idx)) = 1
          /\ log[Len(log)].msg.signals = hits)
  /\ [][pc = "threshold" =>
          /\ (Len(hits) >= MIN_SIGNALS_REQUIRED) <=> (pc' = "alert")
          /\ (Len(hits) < MIN_SIGNALS_REQUIRED) => (pc' = "for" /\ log' = log /\ idx' = idx + 1)]_vars
C3_Witness ==
  /\ pc = "send_tg"
  /\ Len(hits) = MIN_SIGNALS_REQUIRED
  /\ Cardinality(At("print", idx)) = 1

\* C4: guards is invoked on a pair only when its series has at least MIN_BARS
\* bars, and a rule only after guards admitted the pair; a pair skipped for a
\* short series has no guard and no rule invocation, a rejected pair no rule
\* invocation and no alert, and the driver goes on to the next pair.
C4_GuardsBeforeRules ==
  /\ pc \in {"enrich", "guards", "rules", "threshold", "alert", "send_tg"} =>
       (df.n >= MIN_BARS /\ df.cols # {})
  /\ pc \in {"rules", "threshold", "alert", "send_tg"} => guards(df)
  /\ pc \in {"for", "candles", "enrich", "guards"} =>
       (At("guards", idx) = {} /\ At("rule", idx) = {} /\ At("print", idx) = {})
  /\ \A j \in 1..Len(log) :
       /\ log[j].ev = "guards" => (j > 1 /\ log[j - 1] = Event("get_candles", log[j].i))
       /\ log[j].ev = "rule" =>
            (j > 1 /\ log[j - 1].i = log[j].i /\ log[j - 1].ev \in {"guards", "rule"})
       /\ log[j].ev = "print" => (j > 1 /\ log[j - 1] = RuleEvent(log[j].i, RuleNames[Len(RuleNames)]))
\* the first pair was rejected by guards, the second skipped for a short
\* series, and the driver is at the third
C4_Witness ==
  /\ pc = "for" /\ idx = 3
  /\ log = <<Event("pairs", 0), Event("get_candles", 1), Event("guards", 1), Event("get_candles", 2)>>

\* C5: with no usable snapshot price the volume guard falls back to raw
\* volume: it passes iff the VOL_WINDOW-bar mean of raw volume is at least
\* MIN_ABS_VOLUME_USD.
C5_VolumeFallsBackToRaw ==
  (pc = "guards" /\ IsNaN(enrich_px(pairs[idx]))) =>
    (guards_vol_ok(df) <=>
       (RollingDefined(df.volume, VOL_WINDOW)
        /\ RollingSum(df.volume, VOL_WINDOW) >= MIN_ABS_VOLUME_USD * VOL_WINDOW))

\* C6: guards admits a pair iff the volume guard and the liquidity guard both
\* pass, the thresholds inclusive: with enough volume value the pair is
\* admitted at a liquidity of exactly MIN_LIQ_USD and rejected one unit below;
\* a pair whose snapshot has no liquidity value reaches guards and is
\* rejected, without an error.
NoLiquidityValue(pair) == pair.liquidity \in {Absent, None, Dict(Absent, Absent)}
C6_GuardsInclusive ==
  /\ pc = "guards" =>
       /\ guards(df) <=> (guards_vol_ok(df) /\ guards_liq_ok(df))
       /\ guards_vol_ok(df) =>
            /\ df.liquidityUsd[df.n] = <<MIN_LIQ_USD>> => guards(df)
            /\ df.liquidityUsd[df.n] = <<MIN_LIQ_USD - 1>> => ~guards(df)
  /\ (pc = "enrich" /\ "volume" \in df.cols /\ NoLiquidityValue(pairs[idx])) =>
       /\ ~enrich_raises(df, pairs[idx])
       /\ ~guards(enrich_with_snapshot(df, pairs[idx]))

\* C7: the loop never ends on its own and cycles do not overlap: a cycle
\* starts only from the head of the loop, reached from main's entry or from
\* the sleep, and the sleep only from a finished or aborted cycle; when the
\* candidate source fails no pair is evaluated, the error is logged, and
\* every cycle is followed by another.
C7_LoopNeverEnds ==
  /\ [](pc # "exited" /\ exc = "none")
  /\ [](pairs = <<>> => \A j \in 1..Len(log) : log[j].ev \in {"pairs", "loop_error"})
  /\ []((pc = "sleep" /\ \A j \in 1..Len(log) : log[j].ev # "pairs") =>
          log = <<Event("loop_error", 0)>>)
  /\ [][/\ cycle' # cycle => (pc = "scan" /\ log = <<>>)
        /\ (pc' = "scan" /\ pc # "scan") => pc \in {"main", "sleep"}
        /\ (pc' = "sleep" /\ pc # "sleep") => pc \in {"scan", "for", "except"}
        /\ pc = "except" => pc' = "sleep"]_vars
  /\ []<>(cycle = 0)
  /\ []<>(cycle = 1)
\* the candidate source failed, the error is logged, the driver is at the sleep
C7_Witness ==
  /\ pc = "sleep"
  /\ pairs = <<>>
  /\ log = <<Event("loop_error", 0)>>

\* C8: an alert's message is printed before send_tg is called, whether or not
\* Telegram is configured and whether or not the request succeeds; a failed
\* request is printed by send_tg, not raised, and the driver goes on with the
\* next pair.
C8_PrintBeforeSend ==
  /\ \A j \in 1..Len(log) :
       /\ log[j].ev = "send_tg" => (j > 1 /\ log[j - 1].ev = "print" /\ log[j - 1].i = log[j].i)
       /\ log[j].ev = "print" => (IF j = Len(log) THEN pc = "send_tg" ELSE log[j + 1] = Event("send_tg", log[j].i))
       /\ log[j].ev = "tg_skipped" => (~tg_configured /\ log[j - 1] = Event("send_tg", log[j].i))
       /\ log[j].ev = "tg_request" => (tg_configured /\ log[j - 1] = Event("send_tg", log[j].i))
       /\ log[j].ev = "tg_error" =>
            /\ log[j - 1] = Event("tg_request", log[j].i)
            /\ IF j = Len(log)
               THEN pc \in {"for", "candles", "sleep"} /\ idx > log[j].i
               ELSE log[j + 1].ev # "loop_error"
       /\ log[j].ev = "send_tg" => (j < Len(log) /\ log[j + 1].ev \in {"tg_skipped", "tg_request"})
       /\ log[j].ev = "loop_error" =>
            (j > 1 => log[j - 1].ev \notin {"print", "send_tg", "tg_skipped", "tg_request", "tg_error"})
\* the request for the first pair's alert failed and the second pair was fetched
C8_Witness ==
  /\ At("tg_error", 1) # {}
  /\ At("get_candles", 2) # {}

\* C9: rule_mcap_roc never passes: the market cap is one value on every bar,
\* its change over ROC_WINDOW bars is zero or undefined; its name is in no
\* alert, and every alert has MIN_SIGNALS_REQUIRED of the other four rules.
C9_McapRocNeverPasses ==
  /\ pc \in {"rules", "threshold", "alert", "send_tg"} => ~rule_mcap_roc(df).ok
  /\ last.rule = "rule_mcap_roc" => ~last.ok
  /\ \A j \in 1..Len(hits) : hits[j] # "rule_mcap_roc"
  /\ \A j \in 1..Len(log) :
       log[j].ev = "print" =>
         /\ \A h \in 1..Len(log[j].msg.signals) : log[j].msg.signals[h] # "rule_mcap_roc"
         /\ Len(log[j].msg.signals) >= MIN_SIGNALS_REQUIRED
         /\ log[j].msg.roc \in {"n/a", "nan", "0.0"}
\* an alert on a pair whose market cap is known
C9_Witness ==
  /\ pc = "send_tg"
  /\ ~AllNaN(df.mcap)
  /\ last.rule = "rule_mcap_roc" /\ last.meta = {"roc%"}

\* C10: started as a script, every module-level statement is executed without
\* error and main() is entered.
C10_StartupReachesMain ==
  /\ exc = "none"
  /\ pc # "exited"
  /\ mpc > Len(Program) => pc # "module"
====
